---- MODULE Spec2Model ----
(***************************************************************************)
(* Model of src/code/main.cpp: the procedural sphere mesh generator, the   *)
(* instance-grid builder and main()'s control flow (backend start-up,      *)
(* shader compilation, render loop, clean-up).                             *)
(*                                                                         *)
(* Floats are modelled in fixed point.  Trigonometric values and unit      *)
(* vectors carry FX units per 1.0; lengths of the scene (spread, camera    *)
(* distance, translations, colours) carry UNIT units per 1.0.  Angles are  *)
(* exact rationals n/d of pi, so that sin(0) and sin(pi) are exactly 0.    *)
(***************************************************************************)
EXTENDS Integers, Sequences, FiniteSets, TLC

VARIABLES
    pc,              \* position of main(): the statement it executes next
    exitStatus,      \* <<status>> once main() returned, <<>> while it runs
    latitudeBands,   \* arguments of the generateSphere call
    longitudeBands,
    vertices,        \* std::vector<float> vertices
    indices,         \* std::vector<unsigned int> indices
    numObj,          \* <<numObj_x, numObj_y, numObj_z>>
    instances,       \* std::vector<InstanceData> instanceData: its elements (data),
                     \* the number of assignments each element received (writes)
                     \* and whether a write fell outside the vector (ub)
    gl,              \* backend objects: window, buffers, attributes, program, uniforms
    errLog,          \* what was written to std::cerr
    camera,          \* projection, cameraPos, targetPos, upDirection, view
    clock,           \* glutGet(GLUT_ELAPSED_TIME) of the last reading, in ticks
    shouldClose,     \* the window's close flag (glfwWindowShouldClose)
    frame            \* bookkeeping of the current loop iteration

vars == <<pc, exitStatus, latitudeBands, longitudeBands, vertices, indices,
          numObj, instances, gl, errLog, camera, clock,
          shouldClose, frame>>

(***************************************************************************)
(* Bounds of the model.                                                    *)
(***************************************************************************)
MaxBands == 6       \* generateSphere is explored for 1..MaxBands bands each way
MaxExtent == 5      \* the grid builder is explored for extents 1..MaxExtent
MaxTicks == 4       \* the clock is read at 0..MaxTicks ticks

(***************************************************************************)
(* Fixed-point representation of float.                                    *)
(***************************************************************************)
FX == 10000         \* units per 1.0 for sines, cosines and unit vectors
UNIT == 200         \* units per 1.0 for scene lengths and colours
PI_FX == 31416      \* M_PI in FX units
TickDen == 6        \* one clock tick turns the camera by pi/TickDen

\* sin(m*pi/d) for 0 <= 2*m <= d, by its Taylor polynomial up to x^9.
SinQ1(m, d) ==
    LET x  == (PI_FX * m) \div d
        x2 == (x * x) \div FX
        t3 == (x * x2) \div (6 * FX)
        t5 == (t3 * x2) \div (20 * FX)
        t7 == (t5 * x2) \div (42 * FX)
        t9 == (t7 * x2) \div (72 * FX)
    IN  x - t3 + t5 - t7 + t9

\* std::sin of the angle n*pi/d (n >= 0, d > 0), in FX units.
Sin(n, d) ==
    LET m == n % (2 * d)
        h == IF m > d THEN m - d ELSE m
        q == IF 2 * h > d THEN d - h ELSE h
        s == SinQ1(q, d)
    IN  IF m > d THEN -s ELSE s

\* std::cos of the angle n*pi/d: sin(x + pi/2).
Cos(n, d) == Sin(2 * n + d, 2 * d)

\* product of two FX values, rounded toward zero
MulFX(a, b) ==
    IF a * b >= 0 THEN (a * b) \div FX ELSE -((-(a * b)) \div FX)

(***************************************************************************)
(* generateSphere                                                          *)
(***************************************************************************)
radius == 1

\* the six floats pushed for vertex (lat, lon): position, then normal
SphereVertex(lat, lon, L, G) ==
    LET sinTheta == Sin(lat, L)
        cosTheta == Cos(lat, L)
        sinPhi   == Sin(2 * lon, G)
        cosPhi   == Cos(2 * lon, G)
        x == MulFX(cosPhi, sinTheta)
        y == cosTheta
        z == MulFX(sinPhi, sinTheta)
    IN  <<radius * x, radius * y, radius * z, x, y, z>>

RECURSIVE VertexLonLoop(_, _, _, _, _)
VertexLonLoop(vs, lat, lon, L, G) ==
    IF lon <= G
    THEN VertexLonLoop(vs \o SphereVertex(lat, lon, L, G), lat, lon + 1, L, G)
    ELSE vs

RECURSIVE VertexLatLoop(_, _, _, _)
VertexLatLoop(vs, lat, L, G) ==
    IF lat <= L
    THEN VertexLatLoop(VertexLonLoop(vs, lat, 0, L, G), lat + 1, L, G)
    ELSE vs

\* Mutant of QuadIndices: the row stride is taken one too long
QuadIndicesLongStride(lat, lon, G) ==
    LET first  == (lat * (G + 1)) + lon
        second == first + G + 2
    IN  <<first, second, first + 1, second, second + 1, first + 1>>

\* Mutant of QuadIndices: the second and third corner of each triangle are exchanged
QuadIndicesReversed(lat, lon, G) ==
    LET first  == (lat * (G + 1)) + lon
        second == first + G + 1
    IN  <<first, first + 1, second, second, first + 1, second + 1>>

\* the six indices pushed for the quad (lat, lon)
QuadIndices(lat, lon, G) ==
    LET first  == (lat * (G + 1)) + lon
        second == first + G + 1
    IN  <<first, second, first + 1, second, second + 1, first + 1>>

RECURSIVE IndexLonLoop(_, _, _, _)
IndexLonLoop(is, lat, lon, G) ==
    IF lon < G
    THEN IndexLonLoop(is \o QuadIndices(lat, lon, G), lat, lon + 1, G)
    ELSE is

RECURSIVE IndexLatLoop(_, _, _, _)
IndexLatLoop(is, lat, L, G) ==
    IF lat < L
    THEN IndexLatLoop(IndexLonLoop(is, lat, 0, G), lat + 1, L, G)
    ELSE is

\* Mutant of Cleared: the vector keeps what it held
ClearedNot(v) == v

\* vertices.clear() / indices.clear()
Cleared(v) == <<>>

\* generateSphere(vertices, indices, L, G): the two vectors it leaves
generateSphere(vs, is, L, G) ==
    [vertices |-> VertexLatLoop(Cleared(vs), 0, L, G),
     indices  |-> IndexLatLoop(Cleared(is), 0, L, G)]

(***************************************************************************)
(* glm vectors and matrices, in UNIT units                                 *)
(***************************************************************************)
Vec3Sub(a, b) == <<a[1] - b[1], a[2] - b[2], a[3] - b[3]>>

\* glm::cross, of two vectors in UNIT units
Cross(a, b) ==
    <<(a[2] * b[3] - a[3] * b[2]) \div UNIT,
      (a[3] * b[1] - a[1] * b[3]) \div UNIT,
      (a[1] * b[2] - a[2] * b[1]) \div UNIT>>

\* glm::mat4(1.0f): four columns
Mat4Identity ==
    <<<<UNIT, 0, 0, 0>>, <<0, UNIT, 0, 0>>, <<0, 0, UNIT, 0>>, <<0, 0, 0, UNIT>>>>

\* glm::translate(m, v): column 3 becomes m0*v.x + m1*v.y + m2*v.z + m3
Mat4Translate(m, v) ==
    LET T(r) == (m[1][r] * v[1] + m[2][r] * v[2] + m[3][r] * v[3]) \div UNIT + m[4][r]
    IN  <<m[1], m[2], m[3], <<T(1), T(2), T(3), T(4)>>>>

\* a matrix column times a float
Vec4Scale(c, f) ==
    <<(c[1] * f) \div UNIT, (c[2] * f) \div UNIT, (c[3] * f) \div UNIT, (c[4] * f) \div UNIT>>

\* glm::scale(m, v): columns 0..2 are scaled by v.x, v.y, v.z
Mat4Scale(m, v) ==
    <<Vec4Scale(m[1], v[1]), Vec4Scale(m[2], v[2]), Vec4Scale(m[3], v[3]), m[4]>>

\* glm::lookAt(eye, center, up), without the normalisation of its basis:
\* f = center - eye, s = f x up, u = s x f, and the eye the basis is moved to
LookAt(eye, center, up) ==
    LET f == Vec3Sub(center, eye)
        s == Cross(f, up)
        u == Cross(s, f)
    IN  [s |-> s, u |-> u, f |-> f, eye |-> eye]

screenWidth == 800
screenHeight == 600
fovyDegrees == 60
zNearTenths == 1        \* 0.1f
zFarTenths == 10000     \* 1000.0f

\* glm::perspective(radians(fovy), aspect, zNear, zFar): its non-zero entries, FX units
Perspective ==
    LET tanHalfFovy == (Sin(fovyDegrees, 360) * FX) \div Cos(fovyDegrees, 360)
        m11 == (FX * FX) \div tanHalfFovy
    IN  [m00 |-> (m11 * screenHeight) \div screenWidth,
         m11 |-> m11,
         m22 |-> -(((zFarTenths + zNearTenths) * FX) \div (zFarTenths - zNearTenths)),
         m23 |-> -FX,
         m32 |-> -(((2 * zFarTenths * zNearTenths * FX) \div (zFarTenths - zNearTenths)) \div 10)]

(***************************************************************************)
(* The instance grid of main()                                             *)
(***************************************************************************)
numObj_x == 30
numObj_y == 30
numObj_z == 30
spread == 230           \* 1.15f
instanceScale == 66     \* 0.33f
colorStep == 20         \* 0.1f
sphereBands == 4        \* generateSphere(vertices, indices, 4, 4)

\* Mutant of InstanceCount: one extent is left out of the product
InstanceCountTwoFactors(N) == N[1] * N[2]

\* constexpr int instanceCount = numObj_x * numObj_y * numObj_z
InstanceCount(N) == N[1] * N[2] * N[3]

\* A std::vector<T> of many elements is kept in pages of PageSize slots: element
\* idx (from 0) is slot idx % PageSize of page idx \div PageSize.
PageSize == 128

\* std::vector<T>(n), every element value-initialised to x
VecNew(n, x) ==
    [p \in 1..((n + PageSize - 1) \div PageSize) |->
        [o \in 1..(IF p * PageSize <= n THEN PageSize ELSE n - (p - 1) * PageSize) |-> x]]

\* v.size()
VecSize(v) ==
    IF Len(v) = 0 THEN 0 ELSE (Len(v) - 1) * PageSize + Len(v[Len(v)])

\* v[idx]
VecGet(v, idx) == v[(idx \div PageSize) + 1][(idx % PageSize) + 1]

\* v[idx] = x
VecSet(v, idx, x) == [v EXCEPT ![(idx \div PageSize) + 1][(idx % PageSize) + 1] = x]

\* a value-initialised InstanceData
ZeroInstance ==
    [model |-> <<<<0, 0, 0, 0>>, <<0, 0, 0, 0>>, <<0, 0, 0, 0>>, <<0, 0, 0, 0>>>>,
     color |-> <<0, 0, 0>>]

\* Mutant of CellPosition: the half extent is an integer division
CellPositionIntHalf(i, j, k, N) ==
    <<(-(N[1] \div 2)) * spread + spread * i,
      spread * j + spread,
      (-(N[3] \div 2)) * spread + spread * k>>

\* float x, y, z of cell (i, j, k)
CellPosition(i, j, k, N) ==
    <<((-N[1]) * spread) \div 2 + spread * i,
      spread * j + spread,
      ((-N[3]) * spread) \div 2 + spread * k>>

\* glm::vec3 color of cell (i, j, k)
CellColor(i, j, k) ==
    <<colorStep * (i + 1), colorStep * (j + 1), colorStep * (k + 1)>>

\* the record {model, color} the loop body builds for cell (i, j, k)
CellRecord(i, j, k, N) ==
    [model |-> Mat4Scale(Mat4Translate(Mat4Identity, CellPosition(i, j, k, N)),
                         <<instanceScale, instanceScale, instanceScale>>),
     color |-> CellColor(i, j, k)]

\* Mutant of LinearIndex: the outer stride uses numObj_x for numObj_y
LinearIndexWrongStride(i, j, k, N) == i * (N[1] * N[3]) + j * N[3] + k

\* int index = i * (numObj_y * numObj_z) + j * numObj_z + k
LinearIndex(i, j, k, N) == i * (N[2] * N[3]) + j * N[3] + k

\* instanceData[index] = {model, color}.  g = [data, writes, ub]; a write outside
\* the vector is undefined behaviour, recorded in ub (the vector is left as it was,
\* one of the outcomes).  writes counts the assignments each slot received.
GridWrite(g, i, j, k, N) ==
    LET index == LinearIndex(i, j, k, N)
    IN  IF index >= 0 /\ index < VecSize(g.data)
        THEN [g EXCEPT !.data = VecSet(@, index, CellRecord(i, j, k, N)),
                       !.writes = VecSet(@, index, VecGet(@, index) + 1)]
        ELSE [g EXCEPT !.ub = TRUE]

\* The three nested loops.  Each loop condition is evaluated on the state the
\* previous iteration left (g.ub is read first, which also keeps the evaluation
\* of the accumulated vector iterative).
RECURSIVE GridLoopK(_, _, _, _, _)
GridLoopK(g, i, j, k, N) ==
    IF g.ub \in BOOLEAN /\ k < N[3]
    THEN GridLoopK(GridWrite(g, i, j, k, N), i, j, k + 1, N)
    ELSE g

RECURSIVE GridLoopJ(_, _, _, _)
GridLoopJ(g, i, j, N) ==
    IF g.ub \in BOOLEAN /\ j < N[2]
    THEN GridLoopJ(GridLoopK(g, i, j, 0, N), i, j + 1, N)
    ELSE g

RECURSIVE GridLoopI(_, _, _)
GridLoopI(g, i, N) ==
    IF g.ub \in BOOLEAN /\ i < N[1]
    THEN GridLoopI(GridLoopJ(g, i, 0, N), i + 1, N)
    ELSE g

\* std::vector<InstanceData> instanceData(instanceCount), then the loops
BuildInstanceGrid(N) ==
    GridLoopI([data   |-> VecNew(InstanceCount(N), ZeroInstance),
               writes |-> VecNew(InstanceCount(N), 0),
               ub     |-> FALSE], 0, N)

(***************************************************************************)
(* main(): state                                                           *)
(***************************************************************************)
\* exitStatus is <<>> while main() runs and <<status>> once it returned
NoExit == <<>>
NoBuffer == [bytes |-> -1]
sizeofFloat == 4
sizeofUnsigned == 4
sizeofVec4 == 16
sizeofMat4 == 64
sizeofInstanceData == 76    \* glm::mat4 model + glm::vec3 color

LoopBody == {"camera", "uniforms", "draw", "swap", "poll"}

\* the backend before glfwInit
GlInit ==
    [glfwUp     |-> FALSE,      \* glfwInit succeeded and glfwTerminate not yet called
     window     |-> FALSE,      \* glfwCreateWindow returned a window
     glewUp     |-> FALSE,
     VAO        |-> FALSE,
     VBO        |-> NoBuffer,
     EBO        |-> NoBuffer,
     instanceVBO |-> NoBuffer,
     attribs    |-> {},         \* enabled vertex attributes
     compiled   |-> <<>>,       \* compile status of the shaders, in creation order
     shadersAlive |-> 0,        \* shader objects not yet deleted
     program    |-> "none",     \* "none", "linked", "invalid", "deleted"
     inUse      |-> FALSE,      \* glUseProgram installed the program
     viewLoc    |-> -1,
     projectionLoc |-> -1,
     uView      |-> <<>>,       \* value of the uniform "view", <<>> while never set
     uProjection |-> <<>>,
     drawn      |-> <<>>,       \* arguments of the last glDrawElementsInstanced
     terminated |-> FALSE]      \* glfwTerminate ran

CameraInit ==
    [projection |-> <<>>, cameraPos |-> <<>>, targetPos |-> <<>>,
     upDirection |-> <<>>, view |-> <<>>]

FrameInit == [steps |-> <<>>, draws |-> 0, closeSeen |-> FALSE]

\* the instance vector before it is constructed
NoInstances == [data |-> <<>>, writes |-> <<>>, ub |-> FALSE]

\* what every specification starts from, apart from pc and the inputs
Fresh ==
    /\ exitStatus = NoExit
    /\ instances = NoInstances
    /\ gl = GlInit
    /\ errLog = <<>>
    /\ camera = CameraInit
    /\ clock = 0
    /\ shouldClose = FALSE
    /\ frame = FrameInit

\* main() as written: generateSphere(.., 4, 4) and a 30 x 30 x 30 grid
Init ==
    /\ pc = "glfwInit"
    /\ latitudeBands = sphereBands
    /\ longitudeBands = sphereBands
    /\ vertices = <<>>
    /\ indices = <<>>
    /\ numObj = <<numObj_x, numObj_y, numObj_z>>
    /\ Fresh

(***************************************************************************)
(* main(): start-up                                                        *)
(***************************************************************************)
\* Mutant of Abort: the failed start-up returns 0
AbortReturningZero ==
    /\ pc' = "exited"
    /\ exitStatus' = <<0>>

\* return -1 of a failed start-up step: nothing else runs
Abort ==
    /\ pc' = "exited"
    /\ exitStatus' = <<-1>>

\* if (!glfwInit()) return -1;
GlfwInit ==
    /\ pc = "glfwInit"
    /\ \E ok \in BOOLEAN :
          IF ok
          THEN /\ gl' = [gl EXCEPT !.glfwUp = TRUE]
               /\ pc' = "createWindow"
               /\ UNCHANGED exitStatus
          ELSE /\ Abort
               /\ UNCHANGED gl
    /\ UNCHANGED <<latitudeBands, longitudeBands, vertices, indices, numObj,
                   instances, errLog, camera, clock,
                   shouldClose, frame>>

\* glfwCreateWindow; if (!window) return -1; glfwMakeContextCurrent
CreateWindow ==
    /\ pc = "createWindow"
    /\ \E ok \in BOOLEAN :
          IF ok
          THEN /\ gl' = [gl EXCEPT !.window = TRUE]
               /\ pc' = "glewInit"
               /\ UNCHANGED exitStatus
          ELSE /\ Abort
               /\ UNCHANGED gl
    /\ UNCHANGED <<latitudeBands, longitudeBands, vertices, indices, numObj,
                   instances, errLog, camera, clock,
                   shouldClose, frame>>

\* if (glewInit() != GLEW_OK) return -1;
GlewInit ==
    /\ pc = "glewInit"
    /\ \E ok \in BOOLEAN :
          IF ok
          THEN /\ gl' = [gl EXCEPT !.glewUp = TRUE]
               /\ pc' = "generateSphere"
               /\ UNCHANGED exitStatus
          ELSE /\ Abort
               /\ UNCHANGED gl
    /\ UNCHANGED <<latitudeBands, longitudeBands, vertices, indices, numObj,
                   instances, errLog, camera, clock,
                   shouldClose, frame>>

\* generateSphere(vertices, indices, latitudeBands, longitudeBands)
GenerateSphere ==
    /\ pc = "generateSphere"
    /\ LET mesh == generateSphere(vertices, indices, latitudeBands, longitudeBands)
       IN  /\ vertices' = mesh.vertices
           /\ indices' = mesh.indices
    /\ pc' = "uploadMesh"
    /\ UNCHANGED <<exitStatus, latitudeBands, longitudeBands, numObj, instances, gl, errLog, camera, clock, shouldClose, frame>>

\* glVertexAttribPointer(location, size, GL_FLOAT, GL_FALSE, stride, offset),
\* glEnableVertexAttribArray, and the divisor set for it (0: per vertex)
Attrib(location, size, stride, offset, divisor) ==
    [location |-> location, size |-> size, stride |-> stride,
     offset |-> offset, divisor |-> divisor]

\* VAO, VBO and EBO are created and filled, attributes 0 and 1 are bound
UploadMesh ==
    /\ pc = "uploadMesh"
    /\ gl' = [gl EXCEPT
                !.VAO = TRUE,
                !.VBO = [bytes |-> Len(vertices) * sizeofFloat],
                !.EBO = [bytes |-> Len(indices) * sizeofUnsigned],
                !.attribs = @ \cup
                    {Attrib(0, 3, 6 * sizeofFloat, 0, 0),
                     Attrib(1, 3, 6 * sizeofFloat, 3 * sizeofFloat, 0)}]
    /\ pc' = "buildGrid"
    /\ UNCHANGED <<exitStatus, latitudeBands, longitudeBands, vertices, indices,
                   numObj, instances, errLog, camera, clock,
                   shouldClose, frame>>

\* the instance vector is allocated and the three nested loops fill it
BuildGrid ==
    /\ pc = "buildGrid"
    /\ instances' = BuildInstanceGrid(numObj)
    /\ pc' = "uploadInstances"
    /\ UNCHANGED <<exitStatus, latitudeBands, longitudeBands, vertices, indices,
                   numObj, gl, errLog, camera, clock, shouldClose, frame>>

\* instanceVBO is created and filled; attributes 2..5 (the matrix columns) and
\* 6 (the colour) advance once per instance
UploadInstances ==
    /\ pc = "uploadInstances"
    /\ gl' = [gl EXCEPT
                !.instanceVBO = [bytes |-> InstanceCount(numObj) * sizeofInstanceData],
                !.attribs = @ \cup
                    {Attrib(2 + i, 4, sizeofInstanceData, sizeofVec4 * i, 1) : i \in 0..3}
                    \cup {Attrib(6, 3, sizeofInstanceData, sizeofMat4, 1)}]
    /\ pc' = "compileVertex"
    /\ UNCHANGED <<exitStatus, latitudeBands, longitudeBands, vertices, indices,
                   numObj, instances, errLog, camera, clock,
                   shouldClose, frame>>

\* Mutant of compileShader: the compile status is not looked at
compileShaderUnchecked(success) ==
    /\ gl' = [gl EXCEPT !.compiled = Append(@, success), !.shadersAlive = @ + 1]
    /\ errLog' = errLog

\* compileShader(type, source): the backend reports the compile status; a failure is
\* written to std::cerr; the shader handle is returned either way
compileShader(success) ==
    /\ gl' = [gl EXCEPT !.compiled = Append(@, success), !.shadersAlive = @ + 1]
    /\ errLog' = IF ~success THEN Append(errLog, "Error compiling shader") ELSE errLog

CompileVertexShader ==
    /\ pc = "compileVertex"
    /\ \E success \in BOOLEAN : compileShader(success)
    /\ pc' = "compileFragment"
    /\ UNCHANGED <<exitStatus, latitudeBands, longitudeBands, vertices, indices,
                   numObj, instances, camera, clock,
                   shouldClose, frame>>

CompileFragmentShader ==
    /\ pc = "compileFragment"
    /\ \E success \in BOOLEAN : compileShader(success)
    /\ pc' = "linkProgram"
    /\ UNCHANGED <<exitStatus, latitudeBands, longitudeBands, vertices, indices,
                   numObj, instances, camera, clock,
                   shouldClose, frame>>

\* glCreateProgram, glAttachShader x2, glLinkProgram, glDeleteShader x2,
\* glUseProgram.  Linking needs both shaders compiled; a program that did not link
\* is not installed by glUseProgram.
LinkProgram ==
    /\ pc = "linkProgram"
    /\ LET linked == \A n \in DOMAIN gl.compiled : gl.compiled[n]
       IN  gl' = [gl EXCEPT !.program = IF linked THEN "linked" ELSE "invalid",
                            !.shadersAlive = 0,
                            !.inUse = linked]
    /\ pc' = "setupCamera"
    /\ UNCHANGED <<exitStatus, latitudeBands, longitudeBands, vertices, indices,
                   numObj, instances, errLog, camera, clock,
                   shouldClose, frame>>

(***************************************************************************)
(* main(): camera and render loop                                          *)
(***************************************************************************)
\* constexpr float cameraDist = spread * numObj_x * 1.5f
CameraDist(N) == (spread * N[1] * 3) \div 2

\* camSpead2 * cameraDist, camSpead2 = 0.5f
HalfCameraDist(N) == CameraDist(N) \div 2

\* glGetUniformLocation: -1 unless the program linked
UniformLocation(program, location) == IF program = "linked" THEN location ELSE -1

\* projection, cameraPos, targetPos, upDirection, view and the uniform locations
SetupCamera ==
    /\ pc = "setupCamera"
    /\ LET cameraPos   == <<HalfCameraDist(numObj), CameraDist(numObj), HalfCameraDist(numObj)>>
           targetPos   == <<0, (numObj[2] * spread) \div 2, 0>>
           upDirection == <<0, 0, -UNIT>>
       IN  camera' = [projection  |-> Perspective,
                      cameraPos   |-> cameraPos,
                      targetPos   |-> targetPos,
                      upDirection |-> upDirection,
                      view        |-> LookAt(cameraPos, targetPos, upDirection)]
    /\ gl' = [gl EXCEPT !.viewLoc = UniformLocation(gl.program, 0),
                        !.projectionLoc = UniformLocation(gl.program, 1)]
    /\ pc' = "loopTest"
    /\ UNCHANGED <<exitStatus, latitudeBands, longitudeBands, vertices, indices,
                   numObj, instances, errLog, clock,
                   shouldClose, frame>>

\* Mutant of LoopCondition: the negation is missing
LoopConditionNotNegated(close) == close

\* while (!glfwWindowShouldClose(window)): TRUE when the body is entered
LoopCondition(close) == ~close

\* the loop condition is evaluated: the body is entered or the loop is left
LoopTest ==
    /\ pc = "loopTest"
    /\ IF LoopCondition(shouldClose)
       THEN /\ pc' = "camera"
            /\ frame' = FrameInit
       ELSE /\ pc' = "cleanup"
            /\ frame' = [frame EXCEPT !.closeSeen = shouldClose]
    /\ UNCHANGED <<exitStatus, latitudeBands, longitudeBands, vertices, indices,
                   numObj, instances, gl, errLog, camera,
                   clock, shouldClose>>

\* Mutant of OrbitCamera: the height is recomputed as well
OrbitCameraMovingHeight(cameraPos, ticks, N) ==
    <<MulFX(Sin(ticks, TickDen), -CameraDist(N)),
      MulFX(Cos(ticks, TickDen), CameraDist(N)),
      MulFX(Cos(ticks, TickDen), CameraDist(N))>>

\* cameraPos.x = sin(t * camera_speed) * -camera_radius;
\* cameraPos.z = cos(t * camera_speed) * camera_radius;   t * camera_speed = ticks*pi/TickDen
OrbitCamera(cameraPos, ticks, N) ==
    <<MulFX(Sin(ticks, TickDen), -CameraDist(N)),
      cameraPos[2],
      MulFX(Cos(ticks, TickDen), CameraDist(N))>>

\* glClear, the clock is read, the camera is moved and the view recomputed
FrameCamera ==
    /\ pc = "camera"
    /\ \E t \in clock..MaxTicks :
          /\ clock' = t
          /\ LET cameraPos == OrbitCamera(camera.cameraPos, t, numObj)
             IN  camera' = [camera EXCEPT
                              !.cameraPos = cameraPos,
                              !.view = LookAt(cameraPos, camera.targetPos,
                                              camera.upDirection)]
    /\ frame' = [frame EXCEPT !.steps = Append(@, "camera")]
    /\ pc' = "uniforms"
    /\ UNCHANGED <<exitStatus, latitudeBands, longitudeBands, vertices, indices,
                   numObj, instances, gl, errLog, shouldClose>>

\* glUniformMatrix4fv(viewLoc, ..), glUniformMatrix4fv(projectionLoc, ..):
\* a location of -1 is ignored by the backend
FrameUniforms ==
    /\ pc = "uniforms"
    /\ gl' = [gl EXCEPT
                !.uView = IF gl.viewLoc = -1 THEN @ ELSE camera.view,
                !.uProjection = IF gl.projectionLoc = -1 THEN @ ELSE camera.projection]
    /\ frame' = [frame EXCEPT !.steps = Append(@, "uniforms")]
    /\ pc' = "draw"
    /\ UNCHANGED <<exitStatus, latitudeBands, longitudeBands, vertices, indices,
                   numObj, instances, errLog, camera, clock,
                   shouldClose>>

\* glBindVertexArray(VAO);
\* glDrawElementsInstanced(GL_TRIANGLES, indices.size(), GL_UNSIGNED_INT, 0, instanceCount)
FrameDraw ==
    /\ pc = "draw"
    /\ gl' = [gl EXCEPT !.drawn = [count |-> Len(indices),
                                   instances |-> InstanceCount(numObj)]]
    /\ frame' = [frame EXCEPT !.steps = Append(@, "draw"), !.draws = @ + 1]
    /\ pc' = "swap"
    /\ UNCHANGED <<exitStatus, latitudeBands, longitudeBands, vertices, indices,
                   numObj, instances, errLog, camera, clock,
                   shouldClose>>

\* glfwSwapBuffers(window)
FrameSwap ==
    /\ pc = "swap"
    /\ frame' = [frame EXCEPT !.steps = Append(@, "swap")]
    /\ pc' = "poll"
    /\ UNCHANGED <<exitStatus, latitudeBands, longitudeBands, vertices, indices,
                   numObj, instances, gl, errLog, camera,
                   clock, shouldClose>>

\* glfwPollEvents(): a pending close request raises the window's close flag
FramePoll ==
    /\ pc = "poll"
    /\ \E closeRequested \in BOOLEAN : shouldClose' = (shouldClose \/ closeRequested)
    /\ frame' = [frame EXCEPT !.steps = Append(@, "poll")]
    /\ pc' = "loopTest"
    /\ UNCHANGED <<exitStatus, latitudeBands, longitudeBands, vertices, indices,
                   numObj, instances, gl, errLog, camera,
                   clock>>

\* glDeleteVertexArrays, glDeleteBuffers x3, glDeleteProgram, glfwTerminate, return 0
Cleanup ==
    /\ pc = "cleanup"
    /\ gl' = [gl EXCEPT !.VAO = FALSE, !.VBO = NoBuffer, !.EBO = NoBuffer,
                        !.instanceVBO = NoBuffer, !.program = "deleted",
                        !.inUse = FALSE, !.glfwUp = FALSE, !.window = FALSE,
                        !.terminated = TRUE]
    /\ exitStatus' = <<0>>
    /\ pc' = "exited"
    /\ UNCHANGED <<latitudeBands, longitudeBands, vertices, indices, numObj,
                   instances, errLog, camera, clock,
                   shouldClose, frame>>

(***************************************************************************)
(* Specifications                                                          *)
(***************************************************************************)
Next ==
    \/ GlfwInit
    \/ CreateWindow
    \/ GlewInit
    \/ GenerateSphere
    \/ UploadMesh
    \/ BuildGrid
    \/ UploadInstances
    \/ CompileVertexShader
    \/ CompileFragmentShader
    \/ LinkProgram
    \/ SetupCamera
    \/ LoopTest
    \/ FrameCamera
    \/ FrameUniforms
    \/ FrameDraw
    \/ FrameSwap
    \/ FramePoll
    \/ Cleanup

\* main() as the program runs it
Spec == Init /\ [][Next]_vars

\* main() is single-threaded and keeps executing: once the loop condition can be
\* evaluated it is, and once the clean-up can run it does
LiveSpec == Spec /\ WF_vars(LoopTest) /\ WF_vars(Cleanup)

\* generateSphere on every band count of 1..MaxBands, on vectors that may hold
\* earlier content
InitSphere ==
    /\ pc = "generateSphere"
    /\ latitudeBands \in 1..MaxBands
    /\ longitudeBands \in 1..MaxBands
    /\ vertices \in {<<>>, <<0, FX, 0, 0, FX, 0>>}
    /\ indices \in {<<>>, <<0, 0, 0>>}
    /\ numObj = <<numObj_x, numObj_y, numObj_z>>
    /\ Fresh

NextSphere == GenerateSphere

SpecSphere == InitSphere /\ [][NextSphere]_vars

\* the grid builder on every lattice with extents of 1..MaxExtent
InitGrid ==
    /\ pc = "buildGrid"
    /\ latitudeBands = sphereBands
    /\ longitudeBands = sphereBands
    /\ vertices = <<>>
    /\ indices = <<>>
    /\ numObj \in (1..MaxExtent) \X (1..MaxExtent) \X (1..MaxExtent)
    /\ Fresh

NextGrid == BuildGrid

SpecGrid == InitGrid /\ [][NextGrid]_vars

(***************************************************************************)
(* Properties                                                              *)
(***************************************************************************)
SphereGenerated == pc = "uploadMesh"
GridBuilt == pc = "uploadInstances"
InLoop == pc \in LoopBody \cup {"loopTest"}

VertexCount == Len(vertices) \div 6
Position(n) == <<vertices[6 * n + 1], vertices[6 * n + 2], vertices[6 * n + 3]>>
Normal(n) == <<vertices[6 * n + 4], vertices[6 * n + 5], vertices[6 * n + 6]>>

\* C1: for L, G >= 1 generateSphere leaves (L+1)*(G+1) vertices of six floats
\* (position, then the normal, which equals it) and 6*L*G indices, whatever the
\* vectors held before; L = G = 4 gives 25 vertices and 96 indices.
C1_SphereCounts ==
    SphereGenerated =>
        /\ Len(vertices) = 6 * ((latitudeBands + 1) * (longitudeBands + 1))
        /\ Len(indices) = 6 * latitudeBands * longitudeBands
        /\ \A n \in 0..(VertexCount - 1) : Position(n) = Normal(n)
        /\ (latitudeBands = 4 /\ longitudeBands = 4) =>
               (VertexCount = 25 /\ Len(indices) = 96)

C1_Witness ==
    /\ SphereGenerated
    /\ latitudeBands = 4 /\ longitudeBands = 4
    /\ VertexCount = 25 /\ Len(indices) = 96

\* C2: every index generateSphere emits -- first, second, first+1, second+1 of
\* every quad (lat, lon) -- is below the vertex count (L+1)*(G+1).
C2_IndicesInRange ==
    SphereGenerated =>
        /\ VertexCount = (latitudeBands + 1) * (longitudeBands + 1)
        /\ \A n \in DOMAIN indices : indices[n] >= 0 /\ indices[n] < VertexCount
        /\ \A lat \in 0..(latitudeBands - 1), lon \in 0..(longitudeBands - 1) :
              LET first  == lat * (longitudeBands + 1) + lon
                  second == first + (longitudeBands + 1)
                  at     == 6 * (lat * longitudeBands + lon)
              IN  /\ indices[at + 1] = first
                  /\ indices[at + 2] = second
                  /\ indices[at + 3] = first + 1
                  /\ indices[at + 5] = second + 1
                  /\ second + 1 < VertexCount

C2_Witness ==
    /\ SphereGenerated
    /\ latitudeBands = 3 /\ longitudeBands = 5
    /\ indices[Len(indices) - 1] = VertexCount - 1

Cells == (0..(numObj[1] - 1)) \X (0..(numObj[2] - 1)) \X (0..(numObj[3] - 1))
IndexOf(c) == LinearIndex(c[1], c[2], c[3], numObj)
InstanceAt(idx) == VecGet(instances.data, idx)
WritesAt(idx) == VecGet(instances.writes, idx)
InstanceRecords == VecSize(instances.data)

\* C3: the grid loop writes every slot of the instance vector of size Nx*Ny*Nz
\* exactly once, never outside it, and no two lattice cells share a slot.
C3_LinearizationBijective ==
    GridBuilt =>
        /\ ~instances.ub
        /\ InstanceRecords = numObj[1] * numObj[2] * numObj[3]
        /\ \A idx \in 0..(InstanceRecords - 1) : WritesAt(idx) = 1
        /\ \A c \in Cells :
              /\ IndexOf(c) \in 0..(numObj[1] * numObj[2] * numObj[3] - 1)
              /\ InstanceAt(IndexOf(c)).color = CellColor(c[1], c[2], c[3])

C3_Witness ==
    /\ GridBuilt
    /\ numObj = <<2, 3, 4>>
    /\ InstanceRecords = 24
    /\ WritesAt(23) = 1
    /\ InstanceAt(23).color = CellColor(1, 2, 3)

Translation(m) == <<m[4][1], m[4][2], m[4][3]>>

\* C4: the record at index i*(Ny*Nz)+j*Nz+k has translation
\* (spread*(i - Nx/2), spread*(j+1), spread*(k - Nz/2)) (stated doubled, Nx/2 being
\* the real half) and colour 0.1*(i+1, j+1, k+1); for Nx=Ny=Nz=2 the record of
\* (0,0,0) has translation (-spread, spread, -spread) and colour (0.1, 0.1, 0.1),
\* that of (1,1,1) translation (0, 2*spread, 0) and colour (0.2, 0.2, 0.2).
C4_RecordContents ==
    GridBuilt =>
        /\ \A c \in Cells :
              LET r == InstanceAt(IndexOf(c))
                  t == Translation(r.model)
              IN  /\ 2 * t[1] = spread * (2 * c[1] - numObj[1])
                  /\ t[2] = spread * (c[2] + 1)
                  /\ 2 * t[3] = spread * (2 * c[3] - numObj[3])
                  /\ r.color = <<colorStep * (c[1] + 1), colorStep * (c[2] + 1),
                                 colorStep * (c[3] + 1)>>
        /\ numObj = <<2, 2, 2>> =>
              /\ InstanceRecords = 8
              /\ Translation(InstanceAt(0).model) = <<-spread, spread, -spread>>
              /\ InstanceAt(0).color = <<colorStep, colorStep, colorStep>>
              /\ Translation(InstanceAt(7).model) = <<0, 2 * spread, 0>>
              /\ InstanceAt(7).color = <<2 * colorStep, 2 * colorStep, 2 * colorStep>>

C4_Witness ==
    /\ GridBuilt
    /\ numObj = <<2, 2, 2>>
    /\ Translation(InstanceAt(7).model) = <<0, 2 * spread, 0>>
    /\ InstanceAt(0).color = <<colorStep, colorStep, colorStep>>

\* nothing after the start-up has run
NothingRan ==
    /\ vertices = <<>> /\ indices = <<>>
    /\ instances = NoInstances
    /\ ~gl.VAO /\ gl.VBO = NoBuffer /\ gl.EBO = NoBuffer /\ gl.instanceVBO = NoBuffer
    /\ gl.attribs = {}
    /\ gl.compiled = <<>> /\ gl.program = "none"
    /\ gl.drawn = <<>>
    /\ frame = FrameInit

\* C5: the exit status is 0 after a normal window close and -1 after a failed
\* backend start-up; a failed start-up returns before any mesh generation, upload,
\* shader compilation or draw call and without the clean-up and termination.
C5_ExitStatus ==
    /\ pc # "exited" => exitStatus = NoExit
    /\ pc = "exited" => exitStatus \in {<<0>>, <<-1>>}
    /\ (pc = "exited" /\ ~gl.glewUp) =>
          /\ exitStatus = <<-1>>
          /\ NothingRan
          /\ ~gl.terminated
    /\ (pc = "exited" /\ gl.glewUp) =>
          /\ exitStatus = <<0>>
          /\ shouldClose /\ frame.closeSeen
          /\ gl.terminated

C5_Witness ==
    /\ pc = "exited"
    /\ exitStatus = <<-1>>
    /\ gl.glfwUp /\ gl.window /\ ~gl.glewUp
    /\ ~gl.terminated

CompileFailures == {n \in DOMAIN gl.compiled : ~gl.compiled[n]}

\* C6: a failed shader compilation writes a diagnostic and stops nothing: the
\* handle is returned, main attaches, links and uses the program, runs the render
\* loop with the same draw calls and exits with 0 on window close.
C6_CompileFailureContinues ==
    /\ Len(errLog) = Cardinality(CompileFailures)
    /\ pc = "compileFragment" => (Len(gl.compiled) = 1 /\ gl.shadersAlive = 1)
    /\ pc = "linkProgram" => (Len(gl.compiled) = 2 /\ gl.shadersAlive = 2)
    /\ exitStatus = <<-1>> => gl.compiled = <<>>
    /\ (InLoop \/ pc = "cleanup") => (Len(gl.compiled) = 2 /\ gl.program # "none")
    /\ gl.drawn # <<>> =>
          gl.drawn = [count |-> Len(indices), instances |-> InstanceCount(numObj)]
    /\ (pc \in {"swap", "poll"} /\ CompileFailures # {}) => frame.draws = 1
    /\ (pc = "exited" /\ gl.compiled # <<>>) => exitStatus = <<0>>

C6_Witness ==
    /\ pc = "exited"
    /\ exitStatus = <<0>>
    /\ gl.compiled = <<FALSE, TRUE>>
    /\ Len(errLog) = 1
    /\ gl.drawn = [count |-> Len(indices), instances |-> InstanceCount(numObj)]

\* C7: with Nx=Ny=Nz=30 the grid holds 27000 records, and every iteration of the
\* render loop issues exactly one instanced draw call, of 27000 instances and of
\* as many indices as the index buffer holds (96).
C7_OneDrawOf27000 ==
    /\ instances # NoInstances => (InstanceRecords = 27000 /\ ~instances.ub)
    /\ pc = "uploadInstances" => \A idx \in 0..26999 : WritesAt(idx) = 1
    /\ frame.draws \in {0, 1}
    /\ pc \in {"camera", "uniforms", "draw"} => frame.draws = 0
    /\ pc \in {"swap", "poll"} => frame.draws = 1
    /\ (pc \in {"loopTest", "cleanup", "exited"} /\ frame.steps # <<>>) => frame.draws = 1
    /\ gl.drawn # <<>> =>
          /\ gl.drawn.instances = 27000
          /\ gl.drawn.count = Len(indices)
          /\ gl.drawn.count = 96

C7_Witness ==
    /\ pc = "loopTest"
    /\ frame.draws = 1
    /\ InstanceRecords = 27000
    /\ gl.drawn = [count |-> 96, instances |-> 27000]

\* C8: an iteration of the render loop changes, of the scene, only the camera's x
\* and z and the view derived from them: vertices, indices, instance records and
\* count, the uploaded buffers, projection, target, up vector and the camera's y
\* stay what they were when the loop was entered.
C8_FrameChangesOnlyCamera ==
    [][InLoop =>
          /\ vertices' = vertices
          /\ indices' = indices
          /\ instances' = instances
          /\ numObj' = numObj
          /\ gl'.VBO = gl.VBO /\ gl'.EBO = gl.EBO /\ gl'.instanceVBO = gl.instanceVBO
          /\ camera'.projection = camera.projection
          /\ camera'.targetPos = camera.targetPos
          /\ camera'.upDirection = camera.upDirection
          /\ camera'.cameraPos[2] = camera.cameraPos[2]
          /\ camera'.view = LookAt(camera'.cameraPos, camera.targetPos,
                                   camera.upDirection)]_vars

C8_Witness ==
    /\ pc = "loopTest"
    /\ frame.steps # <<>>
    /\ clock > 0
    /\ camera.cameraPos[1] # HalfCameraDist(numObj)
    /\ camera.cameraPos[2] = CameraDist(numObj)
    /\ InstanceRecords = InstanceCount(numObj)

FrameOrder == <<"camera", "uniforms", "draw", "swap", "poll">>
IsPrefix(s, t) == Len(s) <= Len(t) /\ \A n \in DOMAIN s : s[n] = t[n]

CleanedUp ==
    /\ pc = "exited"
    /\ exitStatus = <<0>>
    /\ ~gl.VAO /\ gl.VBO = NoBuffer /\ gl.EBO = NoBuffer /\ gl.instanceVBO = NoBuffer
    /\ gl.program = "deleted"
    /\ gl.terminated

\* C9: the loop is left only from its condition, on the close signal; a started
\* frame runs camera update, uniform upload, draw, presentation, event poll in
\* that order; no draw call follows the condition having seen the signal; once the
\* signal is raised the process leaves the loop, deletes its objects, terminates
\* the windowing layer and returns 0.
C9_CloseEndsLoop ==
    /\ [](IsPrefix(frame.steps, FrameOrder))
    /\ []((pc = "loopTest" /\ frame.steps # <<>>) => frame.steps = FrameOrder)
    /\ [][(InLoop /\ ~InLoop') => (pc = "loopTest" /\ shouldClose /\ pc' = "cleanup")]_vars
    /\ [][(pc \in LoopBody) => InLoop']_vars
    /\ [][frame.closeSeen => (gl'.drawn = gl.drawn /\ frame'.draws = frame.draws)]_vars
    /\ [](pc \in {"cleanup", "exited"} /\ exitStatus # <<-1>> => frame.closeSeen)
    /\ shouldClose ~> CleanedUp

C9_Witness ==
    /\ CleanedUp
    /\ frame.closeSeen
    /\ frame.steps = FrameOrder
    /\ gl.drawn # <<>>

\* triangle t (from 0) of the index buffer, as three vertex positions
Corner(t, n) == Position(indices[3 * t + n])

\* a . (b x c) of three positions, in FX * FX units: positive when a, b, c run
\* counter-clockwise seen from outside the sphere, negative when clockwise, zero
\* when the triangle has no area or lies in a plane through the centre
TripleProduct(a, b, c) ==
    a[1] * ((b[2] * c[3] - b[3] * c[2]) \div FX)
    + a[2] * ((b[3] * c[1] - b[1] * c[3]) \div FX)
    + a[3] * ((b[1] * c[2] - b[2] * c[1]) \div FX)

Winding(t) ==
    LET d == TripleProduct(Corner(t, 1), Corner(t, 2), Corner(t, 3))
    IN  IF d > 0 THEN "ccw" ELSE IF d < 0 THEN "cw" ELSE "none"

Quads == (0..(latitudeBands - 1)) \X (0..(longitudeBands - 1))
\* the two triangles of quad (lat, lon), in the order they are emitted
FirstTriangle(q) == 2 * (q[1] * longitudeBands + q[2])
SecondTriangle(q) == 2 * (q[1] * longitudeBands + q[2]) + 1

\* C10 as stated: every emitted triple names a counter-clockwise-wound triangle
\* and the two triangles of a quad have the same winding.
C10_AllCounterClockwise ==
    SphereGenerated =>
        \A q \in Quads :
            /\ Winding(FirstTriangle(q)) = "ccw"
            /\ Winding(SecondTriangle(q)) = "ccw"

\* C10 as amended: for G >= 3 every emitted triple with no two corners in a pole
\* row is wound clockwise seen from outside the sphere (its right-hand normal
\* points at the centre), so both triangles of a quad away from the poles have
\* the same winding; the first triangle of a quad of the top row and the second
\* of a quad of the bottom row have two corners at the pole and no area.
C10_ClockwiseAwayFromPoles ==
    (SphereGenerated /\ longitudeBands >= 3) =>
        \A q \in Quads :
            /\ Winding(FirstTriangle(q)) = IF q[1] = 0 THEN "none" ELSE "cw"
            /\ Winding(SecondTriangle(q)) =
                  IF q[1] = latitudeBands - 1 THEN "none" ELSE "cw"

C10_Witness ==
    /\ SphereGenerated
    /\ latitudeBands = 4 /\ longitudeBands = 4
    /\ Winding(FirstTriangle(<<1, 0>>)) = "cw"
    /\ Winding(SecondTriangle(<<1, 0>>)) = "cw"
    /\ Winding(FirstTriangle(<<0, 0>>)) = "none"

====
